---- MODULE Spec2Model ----
(***************************************************************************)
(* Session store of the honeypot API (session_manager.py) together with    *)
(* the intelligence extractors it calls (extraction.py).                   *)
(*                                                                         *)
(* Texts are TLA+ strings; the extractors and the keyword scans work on    *)
(* their characters (Len, SubSeq, \o).  Confidence values are kept in      *)
(* hundredths (0.15 is 15, 1.0 is 100).                                    *)
(***************************************************************************)
EXTENDS Integers, Sequences, FiniteSets, TLC

(***************************************************************************)
(* Characters and strings                                                  *)
(***************************************************************************)
UpperChars == "ABCDEFGHIJKLMNOPQRSTUVWXYZ"

LowerChars == "abcdefghijklmnopqrstuvwxyz"

DigitChars == "0123456789"

CharsOf(s) == {SubSeq(s, i, i) : i \in 1..Len(s)}

UpperSet == CharsOf(UpperChars)

LowerSet == CharsOf(LowerChars)

DigitSet == CharsOf(DigitChars)

LetterSet == UpperSet \cup LowerSet

\* \w of the regular expressions
WordSet == LetterSet \cup DigitSet \cup {"_"}

\* \s of the regular expressions
SpaceSet == {" ", "\t", "\n", "\r"}

\* the character at position i, "" outside the string
Ch(t, i) == IF i >= 1 /\ i <= Len(t) THEN SubSeq(t, i, i) ELSE ""

\* \b between positions i-1 and i
WordBoundary(t, i) == (Ch(t, i - 1) \in WordSet) # (Ch(t, i) \in WordSet)

\* the n characters from position i are all in S
AllIn(t, i, n, S) == \A j \in i..(i + n - 1) : Ch(t, j) \in S

RECURSIVE Run(_, _, _)
\* length of the longest run of characters of S starting at position i
Run(t, i, S) == IF Ch(t, i) \in S THEN 1 + Run(t, i + 1, S) ELSE 0

\* s occurs at position i of t
At(t, i, s) == i >= 1 /\ i + Len(s) - 1 <= Len(t) /\ SubSeq(t, i, i + Len(s) - 1) = s

\* Python's `k in t` on strings
Contains(k, t) == \E i \in 1..(Len(t) - Len(k) + 1) : At(t, i, k)

LowerChar(c) ==
    IF c \in UpperSet
    THEN LET i == CHOOSE j \in 1..26 : SubSeq(UpperChars, j, j) = c
         IN  SubSeq(LowerChars, i, i)
    ELSE c

RECURSIVE Lower(_)
\* str.lower()
Lower(t) ==
    IF Len(t) <= 1 THEN LowerChar(t)
    ELSE Lower(SubSeq(t, 1, Len(t) \div 2)) \o Lower(SubSeq(t, Len(t) \div 2 + 1, Len(t)))

RECURSIVE Keep(_, _)
\* the characters of t that are in S, in order (re.sub of the complement)
Keep(t, S) ==
    IF t = "" THEN ""
    ELSE (IF SubSeq(t, 1, 1) \in S THEN SubSeq(t, 1, 1) ELSE "") \o Keep(SubSeq(t, 2, Len(t)), S)

RECURSIVE Count(_, _)
\* str.count(c) for a single character c
Count(t, c) ==
    IF t = "" THEN 0
    ELSE (IF SubSeq(t, 1, 1) = c THEN 1 ELSE 0) + Count(SubSeq(t, 2, Len(t)), c)

RECURSIVE RStrip(_, _)
\* str.rstrip(chars)
RStrip(t, S) ==
    IF t # "" /\ SubSeq(t, Len(t), Len(t)) \in S THEN RStrip(SubSeq(t, 1, Len(t) - 1), S) ELSE t

RECURSIVE LStrip(_, _)
LStrip(t, S) ==
    IF t # "" /\ SubSeq(t, 1, 1) \in S THEN LStrip(SubSeq(t, 2, Len(t)), S) ELSE t

\* str.strip()
Strip(t) == RStrip(LStrip(t, SpaceSet), SpaceSet)

RECURSIVE Scan(_, _, _)
\* re.findall: leftmost non-overlapping matches; ends[i] is the last position
\* of the match starting at i, 0 when the pattern does not match there
Scan(t, ends, i) ==
    IF i > Len(t) THEN {}
    ELSE IF ends[i] >= i THEN {SubSeq(t, i, ends[i])} \cup Scan(t, ends, ends[i] + 1)
    ELSE Scan(t, ends, i + 1)

Max(S) == CHOOSE x \in S : \A y \in S : y <= x

Min2(a, b) == IF a <= b THEN a ELSE b

Max2(a, b) == IF a >= b THEN a ELSE b

(***************************************************************************)
(* extraction.py                                                           *)
(***************************************************************************)
EMAIL_DOMAINS ==
    {"gmail", "yahoo", "hotmail", "outlook", "protonmail", "icloud",
     "aol", "mail", "zoho", "yandex", "live", "msn", "rediffmail",
     "gmx", "inbox", "fastmail", "tutanota", "pm", "hey"}

UPI_PROVIDERS ==
    {"upi", "okhdfcbank", "okicici", "oksbi", "okaxis", "paytm",
     "ybl", "ibl", "apl", "axl", "fbl", "ikwik", "abfspay",
     "axisbank", "sbi", "hdfcbank", "icici", "kotak", "indus",
     "boi", "pnb", "canara", "unionbank", "rbl", "federal",
     "dbs", "hsbc", "sc", "citi", "idbi", "bob", "ubi"}

\* [-.\s]
SepSet == {"-", "."} \cup SpaceSet

\* \+\d{1,3}[-.\s]?\d{4,5}[-.\s]?\d{4,6} at position i; the quantifiers are
\* greedy, so the match is the first in the order a, s1, b, s2, c descending
PhoneIntlEnd(t, i) ==
    IF Ch(t, i) # "+" THEN 0
    ELSE LET C == {c \in [a : 1..3, s1 : 0..1, b : 4..5, s2 : 0..1, c : 4..6] :
                      /\ AllIn(t, i + 1, c.a, DigitSet)
                      /\ (c.s1 = 1 => Ch(t, i + 1 + c.a) \in SepSet)
                      /\ AllIn(t, i + 1 + c.a + c.s1, c.b, DigitSet)
                      /\ (c.s2 = 1 => Ch(t, i + 1 + c.a + c.s1 + c.b) \in SepSet)
                      /\ AllIn(t, i + 1 + c.a + c.s1 + c.b + c.s2, c.c, DigitSet)}
             rank(c) == (((c.a * 2 + c.s1) * 10 + c.b) * 2 + c.s2) * 10 + c.c
         IN  IF C = {} THEN 0
             ELSE LET m == CHOOSE c \in C : \A d \in C : rank(d) <= rank(c)
                  IN  i + m.a + m.s1 + m.b + m.s2 + m.c

\* \+\d{1,3}[-.\s]?\d{10} at position i
PhoneCcEnd(t, i) ==
    IF Ch(t, i) # "+" THEN 0
    ELSE LET C == {c \in [a : 1..3, s1 : 0..1] :
                      /\ AllIn(t, i + 1, c.a, DigitSet)
                      /\ (c.s1 = 1 => Ch(t, i + 1 + c.a) \in SepSet)
                      /\ AllIn(t, i + 1 + c.a + c.s1, 10, DigitSet)}
             rank(c) == c.a * 2 + c.s1
         IN  IF C = {} THEN 0
             ELSE LET m == CHOOSE c \in C : \A d \in C : rank(d) <= rank(c)
                  IN  i + m.a + m.s1 + 10

\* \b0\d{10}\b at position i
PhoneLandlineEnd(t, i) ==
    IF /\ WordBoundary(t, i)
       /\ Ch(t, i) = "0"
       /\ AllIn(t, i + 1, 10, DigitSet)
       /\ WordBoundary(t, i + 11)
    THEN i + 10 ELSE 0

\* (?<!\d)\d{10}(?!\d) at position i
PhoneMobileEnd(t, i) ==
    IF /\ Ch(t, i - 1) \notin DigitSet
       /\ AllIn(t, i, 10, DigitSet)
       /\ Ch(t, i + 10) \notin DigitSet
    THEN i + 9 ELSE 0

extract_phone_numbers(text) ==
    IF text = "" THEN {}
    ELSE LET results ==
                 Scan(text, [i \in 1..Len(text) |-> PhoneIntlEnd(text, i)], 1)
                 \cup Scan(text, [i \in 1..Len(text) |-> PhoneCcEnd(text, i)], 1)
                 \cup Scan(text, [i \in 1..Len(text) |-> PhoneLandlineEnd(text, i)], 1)
                 \cup Scan(text, [i \in 1..Len(text) |-> PhoneMobileEnd(text, i)], 1)
         IN  {Strip(num) : num \in {n \in results : Len(Keep(Strip(n), DigitSet)) >= 10}}

\* [a-zA-Z0-9._-]
UpiLocalSet == LetterSet \cup DigitSet \cup {".", "_", "-"}

\* [a-zA-Z0-9.-]
DomainSet == LetterSet \cup DigitSet \cup {".", "-"}

\* \b([a-zA-Z0-9._-]{2,}@[a-zA-Z0-9.-]+)\b at position i
UpiEnd(t, i) ==
    LET r == Run(t, i, UpiLocalSet)
        s == i + r + 1
        D == Run(t, s, DomainSet)
        C == {d \in 1..D : WordBoundary(t, s + d)}
    IN  IF WordBoundary(t, i) /\ r >= 2 /\ Ch(t, i + r) = "@" /\ C # {}
        THEN s + Max(C) - 1 ELSE 0

\* the part of t before the first occurrence of character c
Before(t, c) == SubSeq(t, 1, Run(t, 1, CharsOf(t) \ {c}))

\* the part of t after the first occurrence of character c
After(t, c) == SubSeq(t, Run(t, 1, CharsOf(t) \ {c}) + 2, Len(t))

\* re.search(r'\.[a-zA-Z]{2,}$', domain)
HasTld(domain) ==
    \E j \in 1..Len(domain) :
        /\ Ch(domain, j) = "."
        /\ Len(domain) - j >= 2
        /\ AllIn(domain, j + 1, Len(domain) - j, LetterSet)

\* the test extract_upi_ids applies to one match
IsUpi(match) ==
    /\ Count(match, "@") + 1 = 2
    /\ LET domain == Lower(After(match, "@"))
           is_upi == \E provider \in UPI_PROVIDERS : Contains(provider, domain)
           domain_base == IF Contains(".", domain) THEN Before(domain, ".") ELSE domain
       IN  \/ is_upi
           \/ ~HasTld(domain) /\ domain_base \notin EMAIL_DOMAINS

extract_upi_ids(text) ==
    IF text = "" THEN {}
    ELSE LET matches == Scan(text, [i \in 1..Len(text) |-> UpiEnd(text, i)], 1)
         IN  {m \in matches : IsUpi(m)}

\* [A-Za-z0-9._%+-]
EmailLocalSet == LetterSet \cup DigitSet \cup {".", "_", "%", "+", "-"}

\* \b([A-Za-z0-9._%+-]+@[A-Za-z0-9.-]+\.[A-Za-z]{2,})\b at position i
EmailEnd(t, i) ==
    LET r == Run(t, i, EmailLocalSet)
        s == i + r + 1
        D == Run(t, s, DomainSet)
        C == {d \in 1..D :
                 /\ Ch(t, s + d) = "."
                 /\ Run(t, s + d + 1, LetterSet) >= 2
                 /\ Ch(t, s + d + 1 + Run(t, s + d + 1, LetterSet)) \notin WordSet}
    IN  IF WordBoundary(t, i) /\ r >= 1 /\ Ch(t, i + r) = "@" /\ C # {}
        THEN s + Max(C) + Run(t, s + Max(C) + 1, LetterSet) ELSE 0

\* an email extraction that does not look at the UPI ids
extract_email_matches(text) ==
    IF text = "" THEN {}
    ELSE Scan(text, [i \in 1..Len(text) |-> EmailEnd(text, i)], 1)

extract_email_addresses(text) ==
    IF text = "" THEN {}
    ELSE LET matches == Scan(text, [i \in 1..Len(text) |-> EmailEnd(text, i)], 1)
             upi_ids == extract_upi_ids(text)
         IN  {m \in matches : m \notin upi_ids}

\* (?<![+\d.])\b(\d{9,18})\b(?!\.\d) at position i
BankEnd(t, i) ==
    LET C == {n \in 9..18 :
                 /\ AllIn(t, i, n, DigitSet)
                 /\ WordBoundary(t, i + n)
                 /\ ~(Ch(t, i + n) = "." /\ Ch(t, i + n + 1) \in DigitSet)}
    IN  IF Ch(t, i - 1) \notin (DigitSet \cup {"+", "."}) /\ WordBoundary(t, i) /\ C # {}
        THEN i + Max(C) - 1 ELSE 0

\* a bank-account extraction that keeps every digit run
extract_bank_runs(text) ==
    IF text = "" THEN {}
    ELSE Scan(text, [i \in 1..Len(text) |-> BankEnd(text, i)], 1)

extract_bank_accounts(text) ==
    IF text = "" THEN {}
    ELSE LET phone_numbers == {Keep(phone, DigitSet) : phone \in extract_phone_numbers(text)}
             matches == Scan(text, [i \in 1..Len(text) |-> BankEnd(text, i)], 1)
         IN  {m \in matches :
                 /\ ~(m \in phone_numbers \/ \E p \in phone_numbers : Contains(m, p))
                 /\ ~(Len(m) = 10 /\ Ch(m, 1) \in {"6", "7", "8", "9"})}

\* the characters that end a link match: \s < > " '
LinkStopSet == SpaceSet \cup {"<", ">", "\"", "'"}

\* https?://[^\s<>"\']+ at position i
LinkHttpEnd(t, i) ==
    LET p == IF At(t, i, "https://") THEN 8 ELSE IF At(t, i, "http://") THEN 7 ELSE 0
        r == Run(t, i + p, CharsOf(t) \ LinkStopSet)
    IN  IF p > 0 /\ r >= 1 THEN i + p + r - 1 ELSE 0

\* www\.[^\s<>"\']+ at position i
LinkWwwEnd(t, i) ==
    LET r == Run(t, i + 4, CharsOf(t) \ LinkStopSet)
    IN  IF At(t, i, "www.") /\ r >= 1 THEN i + 4 + r - 1 ELSE 0

extract_phishing_links(text) ==
    IF text = "" THEN {}
    ELSE LET results ==
                 Scan(text, [i \in 1..Len(text) |-> LinkHttpEnd(text, i)], 1)
                 \cup Scan(text, [i \in 1..Len(text) |-> LinkWwwEnd(text, i)], 1)
         IN  {RStrip(link, {".", ",", ";", ":", "!", "?", ")"}) : link \in results}

\* \b([A-Z]{2,5}-\d{3,10})\b at position i
CaseDashEnd(t, i) ==
    LET C == {c \in [u : 2..5, n : 3..10] :
                 /\ AllIn(t, i, c.u, UpperSet)
                 /\ Ch(t, i + c.u) = "-"
                 /\ AllIn(t, i + c.u + 1, c.n, DigitSet)
                 /\ WordBoundary(t, i + c.u + 1 + c.n)}
        rank(c) == c.u * 100 + c.n
    IN  IF WordBoundary(t, i) /\ C # {}
        THEN LET m == CHOOSE c \in C : \A d \in C : rank(d) <= rank(c)
             IN  i + m.u + m.n
        ELSE 0

\* \b([A-Z]{2,5}\d{4,10})\b at position i
CasePlainEnd(t, i) ==
    LET C == {c \in [u : 2..5, n : 4..10] :
                 /\ AllIn(t, i, c.u, UpperSet)
                 /\ AllIn(t, i + c.u, c.n, DigitSet)
                 /\ WordBoundary(t, i + c.u + c.n)}
        rank(c) == c.u * 100 + c.n
    IN  IF WordBoundary(t, i) /\ C # {}
        THEN LET m == CHOOSE c \in C : \A d \in C : rank(d) <= rank(c)
             IN  i + m.u + m.n - 1
        ELSE 0

CaseKeywords == {"CASE", "REF", "TXN", "ORDER", "POLICY", "TKT"}

\* \b((?:CASE|REF|TXN|ORDER|POLICY|TKT)[:#\s]+[A-Z0-9-]{4,15})\b at position i
CaseKeywordEnd(t, i) ==
    LET K == {kw \in CaseKeywords : At(t, i, kw)}
    IN  IF WordBoundary(t, i) /\ K # {}
        THEN LET k == Len(CHOOSE kw \in K : TRUE)
                 S == Run(t, i + k, SpaceSet \cup {":", "#"})
                 C == {c \in [s : 1..S, n : 4..15] :
                          /\ AllIn(t, i + k + c.s, c.n, UpperSet \cup DigitSet \cup {"-"})
                          /\ WordBoundary(t, i + k + c.s + c.n)}
                 rank(c) == c.s * 100 + c.n
             IN  IF C = {} THEN 0
                 ELSE LET m == CHOOSE c \in C : \A d \in C : rank(d) <= rank(c)
                      IN  i + k + m.s + m.n - 1
        ELSE 0

\* \b(\d{3,5}/[A-Z]{2,5}/\d{3,5})\b at position i
CaseSlashEnd(t, i) ==
    LET C == {c \in [a : 3..5, u : 2..5, b : 3..5] :
                 /\ AllIn(t, i, c.a, DigitSet)
                 /\ Ch(t, i + c.a) = "/"
                 /\ AllIn(t, i + c.a + 1, c.u, UpperSet)
                 /\ Ch(t, i + c.a + 1 + c.u) = "/"
                 /\ AllIn(t, i + c.a + c.u + 2, c.b, DigitSet)
                 /\ WordBoundary(t, i + c.a + c.u + 2 + c.b)}
        rank(c) == (c.a * 10 + c.u) * 10 + c.b
    IN  IF WordBoundary(t, i) /\ C # {}
        THEN LET m == CHOOSE c \in C : \A d \in C : rank(d) <= rank(c)
             IN  i + m.a + m.u + m.b + 1
        ELSE 0

extract_case_ids(text) ==
    IF text = "" THEN {}
    ELSE LET results ==
                 Scan(text, [i \in 1..Len(text) |-> CaseDashEnd(text, i)], 1)
                 \cup Scan(text, [i \in 1..Len(text) |-> CasePlainEnd(text, i)], 1)
                 \cup Scan(text, [i \in 1..Len(text) |-> CaseKeywordEnd(text, i)], 1)
                 \cup Scan(text, [i \in 1..Len(text) |-> CaseSlashEnd(text, i)], 1)
         IN  {m \in {Strip(r) : r \in results} :
                 /\ Len(m) >= 5
                 /\ CharsOf(m) \cap LetterSet # {}
                 /\ CharsOf(m) \cap DigitSet # {}}

\* the six category keys
Categories ==
    {"phoneNumbers", "bankAccounts", "upiIds", "phishingLinks", "emailAddresses", "caseIds"}

extract_all_intelligence(text) ==
    [key \in Categories |->
        CASE key = "phoneNumbers" -> extract_phone_numbers(text)
          [] key = "bankAccounts" -> extract_bank_accounts(text)
          [] key = "upiIds" -> extract_upi_ids(text)
          [] key = "phishingLinks" -> extract_phishing_links(text)
          [] key = "emailAddresses" -> extract_email_addresses(text)
          [] key = "caseIds" -> extract_case_ids(text)]

\* dict.get(key, default)
Get(d, key, default) == IF key \in DOMAIN d THEN d[key] ELSE default

\* a merge that keeps only the new values
merge_replace(existing, new) ==
    [key \in (DOMAIN existing) \cup (DOMAIN new) |-> Get(new, key, {})]

\* a merge over the keys that both records have
merge_common(existing, new) ==
    [key \in (DOMAIN existing) \cap (DOMAIN new) |->
        Get(existing, key, {}) \cup Get(new, key, {})]

\* the lists of a record are deduplicated on every merge; they are kept as sets
merge_intelligence(existing, new) ==
    [key \in (DOMAIN existing) \cup (DOMAIN new) |->
        Get(existing, key, {}) \cup Get(new, key, {})]

EmptyIntel == [key \in Categories |-> {}]


(***************************************************************************)
(* session_manager.py: keyword tables                                      *)
(***************************************************************************)
\* the dict keeps insertion order; the classification loop walks it in order
SCAM_PATTERNS ==
    << <<"bank_fraud",
         <<"bank", "account compromised", "suspicious transaction", "fraud department",
           "sbi", "hdfc", "icici", "axis", "pnb", "rbi", "reserve bank",
           "account blocked", "account suspended", "debit card", "credit card">> >>,
       <<"upi_fraud",
         <<"upi", "paytm", "gpay", "google pay", "phonepe", "cashback",
           "payment pending", "collect request", "upi pin", "refund",
           "money transfer", "bhim">> >>,
       <<"phishing",
         <<"click", "link", "verify", "update kyc", "kyc expired",
           "offer", "prize", "winner", "congratulations", "claim",
           "lottery", "reward", "coupon", "deal", "free">> >>,
       <<"tech_support",
         <<"computer", "virus", "malware", "microsoft", "windows",
           "remote access", "anydesk", "teamviewer", "tech support",
           "software", "license">> >>,
       <<"insurance_fraud",
         <<"insurance", "policy", "premium", "maturity", "claim settlement",
           "lic", "policy lapsed", "bonus", "endowment">> >>,
       <<"delivery_fraud",
         <<"delivery", "package", "courier", "shipment", "order",
           "customs", "parcel", "tracking", "amazon", "flipkart">> >> >>

RED_FLAGS ==
    <<"urgent", "immediately", "otp", "verify", "expir", "blocked",
      "suspended", "warn", "penalty", "legal action", "arrest",
      "police", "court", "freeze", "deadline", "last chance",
      "act now", "right away", "don't delay", "hurry", "emergency",
      "fine", "fee", "charge", "pay now", "transfer", "time sensitive">>

scam_keywords ==
    <<"otp", "verify", "urgent", "blocked", "suspended", "kyc",
      "fraud", "security", "transaction", "click", "link",
      "immediately", "expired", "penalty", "legal", "arrest",
      "fee", "charge", "transfer", "pin", "password", "cvv">>

\* for keyword in scam_keywords: if keyword in text_lower: scam_signals += 1
ScamSignals(text_lower) ==
    Cardinality({i \in 1..Len(scam_keywords) : Contains(scam_keywords[i], text_lower)})

\* sum(1 for p in patterns if p in all_text)
PatternScore(patterns, all_text) ==
    Cardinality({i \in 1..Len(patterns) : Contains(patterns[i], all_text)})

RECURSIVE BestFromLast(_, _, _, _)
\* a classification loop that lets a later type take over on an equal score
BestFromLast(all_text, i, best_type, best_score) ==
    IF i > Len(SCAM_PATTERNS) THEN best_type
    ELSE LET score == PatternScore(SCAM_PATTERNS[i][2], all_text)
         IN  IF score >= best_score /\ score > 0
             THEN BestFromLast(all_text, i + 1, SCAM_PATTERNS[i][1], score)
             ELSE BestFromLast(all_text, i + 1, best_type, best_score)

RECURSIVE BestFrom(_, _, _, _)
\* the classification loop from entry i on, with the best type and score so far
BestFrom(all_text, i, best_type, best_score) ==
    IF i > Len(SCAM_PATTERNS) THEN best_type
    ELSE LET score == PatternScore(SCAM_PATTERNS[i][2], all_text)
         IN  IF score > best_score
             THEN BestFrom(all_text, i + 1, SCAM_PATTERNS[i][1], score)
             ELSE BestFrom(all_text, i + 1, best_type, best_score)

BestType(all_text) == BestFrom(all_text, 1, "unknown", 0)

RECURSIVE Join(_, _)
\* sep.join(texts)
Join(texts, sep) ==
    IF texts = << >> THEN ""
    ELSE IF Len(texts) = 1 THEN texts[1]
    ELSE texts[1] \o sep \o Join(Tail(texts), sep)

\* the red flags that occur in text_lower, in the order of RED_FLAGS
FlagsIn(text_lower) == SelectSeq(RED_FLAGS, LAMBDA flag : Contains(flag, text_lower))

\* an append without the membership test
AppendAll(found, flags) == found \o flags

RECURSIVE AppendNew(_, _)
\* for flag in RED_FLAGS: if flag in text and flag not in found: found.append(flag)
\* with flags the flags that occur in the text
AppendNew(found, flags) ==
    IF flags = << >> THEN found
    ELSE AppendNew(IF \E j \in 1..Len(found) : found[j] = Head(flags)
                   THEN found ELSE Append(found, Head(flags)),
                   Tail(flags))

\* a confidence that counts signals in pairs
ConfidencePairs(total_signals) == Min2(100, (total_signals \div 2) * 30)

\* min(1.0, round(total_signals * 0.15, 2)), in hundredths
Confidence(total_signals) == Min2(100, total_signals * 15)

(***************************************************************************)
(* Bounds and inputs                                                       *)
(***************************************************************************)
\* calls started in a behaviour
MaxCalls == 2

\* the values the clock takes, in seconds
Times == {0, 3}

\* the worker threads of the server, in the order they are handed requests
Workers == <<"t1", "t2">>

Threads == {Workers[i] : i \in 1..Len(Workers)}

SessionIds == {"s1", "s2"}

\* conversationHistory values; entries may lack sender or text
History1 ==
    << [sender |-> "scammer", text |-> "account suspended, call +91-9876543210", timestamp |-> 1],
       [sender |-> "user", text |-> "urgent? mail john.doe@gmail.com", timestamp |-> 2],
       [text |-> "REF-78901 penalty", timestamp |-> 3],
       [sender |-> "scammer", timestamp |-> 4] >>

History2 == << [sender |-> "scammer", text |-> "pay fine to fraud@ybl", timestamp |-> 1] >>

\* the requests the transport layer passes on: message text, history, reply
Requests ==
    {[text |-> "bank refund to merchant@paytm upi",
      conversation_history |-> History2, reply |-> "ok"],
     [text |-> "share OTP now",
      conversation_history |-> History1, reply |-> "Why? Who are you?"],
     [text |-> "URGENT verify otp blocked kyc click link http://x.in 9876543210",
      conversation_history |-> << >>, reply |-> "Who?"]}

Texts == {r.text : r \in Requests}

Histories == {r.conversation_history : r \in Requests}

\* dict.get(key, default)
MsgText(msg) == Get(msg, "text", "")

KnownTexts == Texts \cup UNION {{MsgText(h[i]) : i \in 1..Len(h)} : h \in Histories}

\* what the scans and extractors find in one text
FactsOf(text) ==
    [lower |-> Lower(text),
     intel |-> extract_all_intelligence(text),
     signals |-> ScamSignals(Lower(text)),
     flags |-> FlagsIn(Lower(text))]

\* the scans of the texts of the requests, computed once into a table
TextFacts == [t \in KnownTexts |-> FactsOf(t)] @@ << >>

Facts(text) == IF text \in KnownTexts THEN TextFacts[text] ELSE FactsOf(text)

RECURSIVE HistoryIntelLoose(_, _)
\* a history loop that takes an entry without sender for a scammer entry
HistoryIntelLoose(history, combined) ==
    IF history = << >> THEN combined
    ELSE LET msg == Head(history)
             text == Get(msg, "text", "")
             sender == Get(msg, "sender", "scammer")
         IN  HistoryIntelLoose(Tail(history),
                               IF sender = "scammer"
                               THEN merge_intelligence(combined, Facts(text).intel)
                               ELSE combined)

RECURSIVE HistoryIntel(_, _)
\* the loop of extract_from_conversation_history over history, from combined
HistoryIntel(history, combined) ==
    IF history = << >> THEN combined
    ELSE LET msg == Head(history)
             text == Get(msg, "text", "")
             sender == Get(msg, "sender", "")
         IN  HistoryIntel(Tail(history),
                          IF sender = "scammer"
                          THEN merge_intelligence(combined, Facts(text).intel)
                          ELSE combined)

extract_from_conversation_history(history) == HistoryIntel(history, EmptyIntel)

RECURSIVE HistoryFlags(_, _)
\* the red-flag loop of update_session over the history
HistoryFlags(found, history) ==
    IF history = << >> THEN found
    ELSE LET msg == Head(history)
         IN  HistoryFlags(IF Get(msg, "sender", "None") = "scammer"
                          THEN AppendNew(found, Facts(Get(msg, "text", "")).flags)
                          ELSE found,
                          Tail(history))

RECURSIVE SumSignals(_)
\* the scam keywords found in each of the texts, added up
SumSignals(texts) ==
    IF texts = << >> THEN 0 ELSE Facts(Head(texts)).signals + SumSignals(Tail(texts))

\* the sequences over S of length at most n
SeqsUpTo(S, n) == UNION {[1..k -> S] : k \in 0..n}

\* " ".join(allScammerTexts).lower() and the classification loop on it
TypeOf(texts) == BestType(Lower(Join(texts, " ")))

\* the classification of the text logs the requests can build, computed once
\* into a table
TypeTable == [texts \in SeqsUpTo(Texts, MaxCalls) |-> TypeOf(texts)] @@ << >>

ScamTypeOf(texts) == IF texts \in DOMAIN TypeTable THEN TypeTable[texts] ELSE TypeOf(texts)

\* the score of every entry of SCAM_PATTERNS on " ".join(texts).lower()
ScoresOf(texts) ==
    LET all_text == Lower(Join(texts, " "))
    IN  [i \in 1..Len(SCAM_PATTERNS) |-> PatternScore(SCAM_PATTERNS[i][2], all_text)] @@ << >>

\* the scores of the text logs the requests can build, computed once into a
\* table
ScoreTable == [texts \in SeqsUpTo(Texts, MaxCalls) |-> ScoresOf(texts)] @@ << >>

Scores(texts) == IF texts \in DOMAIN ScoreTable THEN ScoreTable[texts] ELSE ScoresOf(texts)

(***************************************************************************)
(* session_manager.py: state                                               *)
(***************************************************************************)
VARIABLES
    sessions,   \* _sessions: session id -> session record
    lock,       \* _lock: "free" or the thread that holds it
    now,        \* the clock read by time.time()
    pc,         \* per thread: where it is in its call
    frame,      \* per thread: arguments and locals of its call
    last,       \* the call completed last, its arguments and what it returned
    calls       \* the number of calls started so far

vars == <<sessions, lock, now, pc, frame, last, calls>>

NewSession(time) ==
    [startTime |-> time,
     scamDetected |-> FALSE,
     callbackSent |-> FALSE,
     totalMessagesExchanged |-> 0,
     intelligence |-> EmptyIntel,
     scamType |-> "unknown",
     confidenceLevel |-> 0,
     redFlagsFound |-> << >>,
     questionsAsked |-> 0,
     usedResponses |-> {},
     allScammerTexts |-> << >>,
     historyProcessed |-> FALSE]

\* the store after get_or_create_session(session_id) at clock value time
get_or_create_session(store, session_id, time) ==
    IF session_id \notin DOMAIN store
    THEN store @@ (session_id :> NewSession(time))
    ELSE store

(***************************************************************************)
(* update_session: the statements of its locked body, in order             *)
(***************************************************************************)
\* history processed whenever it is supplied
UpdHistoryAlways(s, conversation_history) ==
    IF conversation_history # << >>
    THEN [s EXCEPT
            !.intelligence =
                merge_intelligence(@, extract_from_conversation_history(conversation_history)),
            !.redFlagsFound = HistoryFlags(@, conversation_history),
            !.historyProcessed = TRUE]
    ELSE s

\* a history whose scammer messages count for the detection
UpdHistoryDetecting(s, conversation_history) ==
    IF ~s.historyProcessed /\ conversation_history # << >>
    THEN [s EXCEPT
            !.intelligence =
                merge_intelligence(@, extract_from_conversation_history(conversation_history)),
            !.redFlagsFound = HistoryFlags(@, conversation_history),
            !.scamDetected =
                @ \/ \E i \in 1..Len(conversation_history) :
                         /\ Get(conversation_history[i], "sender", "None") = "scammer"
                         /\ Facts(MsgText(conversation_history[i])).signals > 0,
            !.historyProcessed = TRUE]
    ELSE s

\* lines 92-104
UpdHistory(s, conversation_history) ==
    IF ~s.historyProcessed /\ conversation_history # << >>
    THEN [s EXCEPT
            !.intelligence =
                merge_intelligence(@, extract_from_conversation_history(conversation_history)),
            !.redFlagsFound = HistoryFlags(@, conversation_history),
            !.historyProcessed = TRUE]
    ELSE s

\* a message count that adds two to the previous count
UpdTextCount(s, text, conversation_history) ==
    [s EXCEPT
        !.allScammerTexts = Append(@, text),
        !.intelligence = merge_intelligence(@, Facts(text).intel),
        !.totalMessagesExchanged = @ + 2]

\* lines 107-115
UpdText(s, text, conversation_history) ==
    [s EXCEPT
        !.allScammerTexts = Append(@, text),
        !.intelligence = merge_intelligence(@, Facts(text).intel),
        !.totalMessagesExchanged = Len(conversation_history) + 2]

\* a detection that follows the current text alone
UpdDetectReset(s, text) == [s EXCEPT !.scamDetected = Facts(text).signals > 0]

\* a detection that is set by every message
UpdDetectAlways(s, text) == [s EXCEPT !.scamDetected = TRUE]

\* lines 118-131
UpdDetect(s, text) ==
    IF Facts(text).signals > 0 THEN [s EXCEPT !.scamDetected = TRUE] ELSE s

\* a type that is kept once it is known
UpdTypeKeep(s) ==
    IF s.scamType # "unknown" THEN s
    ELSE [s EXCEPT !.scamType = ScamTypeOf(s.allScammerTexts)]

\* lines 134-142
UpdType(s) == [s EXCEPT !.scamType = ScamTypeOf(s.allScammerTexts)]

\* a confidence from the current text alone
UpdConfidenceCurrent(s, scam_signals) ==
    [s EXCEPT !.confidenceLevel = Confidence(scam_signals)]

\* lines 145-150; scam_signals is the count kept from lines 118-128
UpdConfidence(s, scam_signals) ==
    [s EXCEPT !.confidenceLevel =
        Confidence(scam_signals
                   + SumSignals(SubSeq(s.allScammerTexts, 1, Len(s.allScammerTexts) - 1)))]

\* lines 117-150: detection, type and confidence
UpdClassify(s, text) == UpdConfidence(UpdType(UpdDetect(s, text)), Facts(text).signals)

\* lines 153-155
UpdFlags(s, text) == [s EXCEPT !.redFlagsFound = AppendNew(@, Facts(text).flags)]

\* a count of the replies that ask something
UpdReplyOnce(s, reply) ==
    [s EXCEPT
        !.questionsAsked = IF Contains("?", reply) THEN @ + 1 ELSE @,
        !.usedResponses = @ \cup {reply}]

\* lines 158-162
UpdReply(s, reply) ==
    [s EXCEPT
        !.questionsAsked = IF Contains("?", reply) THEN @ + Count(reply, "?") ELSE @,
        !.usedResponses = @ \cup {reply}]

\* lines 91-115: history, text log, intelligence and message count
UpdIntel(s, r) ==
    UpdText(UpdHistory(s, r.conversation_history), r.text, r.conversation_history)

\* lines 152-162: red flags, questions and used replies
UpdNotes(s, r) == UpdReply(UpdFlags(s, r.text), r.reply)

\* the locked body run from start to end on session s for request r
UpdateBody(s, r) == UpdNotes(UpdClassify(UpdIntel(s, r), r.text), r)

(***************************************************************************)
(* build_final_output                                                      *)
(***************************************************************************)
\* lines 174-181; the numbers stay numbers inside the sentence
AgentNotes(s) ==
    LET red_flags_str ==
            IF s.redFlagsFound # << >>
            THEN Join(SubSeq(s.redFlagsFound, 1, Min2(10, Len(s.redFlagsFound))), ", ")
            ELSE "suspicious behavior"
    IN  <<"Scam type detected: ", s.scamType,
          ". Red flags identified: ", red_flags_str,
          ". Scammer used social engineering tactics including urgency, impersonation, and verification pressure",
          ". Total questions asked: ", s.questionsAsked,
          ". Intelligence extracted across ", s.totalMessagesExchanged, " messages.">>

\* a report that shows the stored type and confidence as they are
ReportRaw(session_id, s, is_scam, duration, agent_notes) ==
    [sessionId |-> session_id,
     scamDetected |-> is_scam,
     scamType |-> s.scamType,
     confidenceLevel |-> s.confidenceLevel,
     totalMessagesExchanged |-> s.totalMessagesExchanged,
     engagementDurationSeconds |-> Max2(duration, 1),
     extractedIntelligence |-> [key \in Categories |-> s.intelligence[key]],
     agentNotes |-> agent_notes]

\* lines 185-201, from the values read so far and session s
Report(session_id, s, is_scam, duration, agent_notes) ==
    [sessionId |-> session_id,
     scamDetected |-> is_scam,
     scamType |-> IF is_scam THEN s.scamType ELSE "none",
     confidenceLevel |-> IF is_scam THEN Max2(s.confidenceLevel, 75) ELSE 0,
     totalMessagesExchanged |-> s.totalMessagesExchanged,
     engagementDurationSeconds |-> Max2(duration, 1),
     extractedIntelligence |-> [key \in Categories |-> s.intelligence[key]],
     agentNotes |-> agent_notes]

\* the report of a build_final_output that reads all of session s at once
ReportOf(session_id, s, duration) ==
    Report(session_id, s, s.scamDetected, duration, AgentNotes(s))

(***************************************************************************)
(* Threads calling the session store                                       *)
(***************************************************************************)
Idle == [op |-> "idle"]

\* an update_session call that is not one of two concurrent calls
NoPair == [paired |-> FALSE]

Init ==
    /\ sessions = << >>
    /\ lock = "free"
    /\ now = 0
    /\ pc = [th \in Threads |-> "idle"]
    /\ frame = [th \in Threads |-> Idle]
    /\ last = [op |-> "none"]
    /\ calls = 0

\* a request goes to the first worker thread that is free
FreeWorker(th) ==
    /\ pc[th] = "idle"
    /\ calls < MaxCalls
    /\ \A i, j \in 1..Len(Workers) : (i < j /\ Workers[j] = th) => pc[Workers[i]] # "idle"

\* a lock that excludes nobody
LockIgnored(th) == TRUE

\* _lock is free for thread th to take
LockFree(th) == lock = "free"

\* time.time(): the clock does not go back
Clock == {time \in Times : time >= now}

\* with _lock: of get_or_create_session, which reads the clock to create
GetOrCreate(th, session_id) ==
    /\ LockFree(th)
    /\ IF session_id \in DOMAIN sessions
       THEN UNCHANGED <<sessions, now>>
       ELSE \E time \in Clock :
                /\ now' = time
                /\ sessions' = get_or_create_session(sessions, session_id, time)

\* thread o has called update_session for session_id and waits for the lock
Waiting(o, session_id) == pc[o] = "u_lock" /\ frame[o].session_id = session_id

\* update_session is called; line 88.  Two calls for one session that are
\* both past line 88 before either runs its body note each other as a pair,
\* with the session as it is then; a call that has a third call write to
\* its session while it waits is no longer one of two
UpdateCall(th, session_id, r) ==
    /\ FreeWorker(th)
    /\ GetOrCreate(th, session_id)
    /\ pc' = [pc EXCEPT ![th] = "u_lock"]
    /\ LET paired == \E o \in Threads \ {th} :
                         Waiting(o, session_id) /\ ~frame[o].pair.paired
           pairOf(peer) == [paired |-> TRUE, base |-> sessions'[session_id],
                            peer |-> peer, done |-> FALSE]
       IN  frame' = [o \in Threads |->
                        IF o = th
                        THEN [op |-> "update_session", session_id |-> session_id,
                              existed |-> session_id \in DOMAIN sessions,
                              request |-> r, before |-> "none",
                              pair |-> IF paired
                                       THEN pairOf(frame[CHOOSE q \in Threads \ {th} :
                                                             Waiting(q, session_id)
                                                             /\ ~frame[q].pair.paired].request)
                                       ELSE NoPair]
                        ELSE IF Waiting(o, session_id)
                             THEN [frame[o] EXCEPT !.pair = IF frame[o].pair.paired
                                                            THEN NoPair ELSE pairOf(r)]
                             ELSE frame[o]]
    /\ calls' = calls + 1
    /\ UNCHANGED <<lock, last>>

\* line 90: with _lock; before is the session as the body finds it, and a
\* build_final_output in flight on the session is overlapped by this update
UpdateLock(th) ==
    /\ pc[th] = "u_lock"
    /\ LockFree(th)
    /\ lock' = th
    /\ pc' = [pc EXCEPT ![th] = "u_intel"]
    /\ frame' = [o \in Threads |->
                    IF o = th
                    THEN [frame[o] EXCEPT !.before = sessions[frame[th].session_id]]
                    ELSE IF frame[o].op = "build_final_output"
                            /\ frame[o].session_id = frame[th].session_id
                         THEN [frame[o] EXCEPT !.overlapped = TRUE]
                         ELSE frame[o]]
    /\ UNCHANGED <<sessions, now, last, calls>>

\* one group of statements on a store whose ids all hold the same dict
UpdateStepShared(th, at, next, new) ==
    /\ pc[th] = at
    /\ sessions' = [id \in DOMAIN sessions |-> new]
    /\ pc' = [pc EXCEPT ![th] = next]
    /\ UNCHANGED <<lock, now, frame, last, calls>>

\* one group of statements of the locked body
UpdateStep(th, at, next, new) ==
    /\ pc[th] = at
    /\ sessions' = [sessions EXCEPT ![frame[th].session_id] = new]
    /\ pc' = [pc EXCEPT ![th] = next]
    /\ UNCHANGED <<lock, now, frame, last, calls>>

\* lines 91-115
UpdateIntel(th) ==
    UpdateStep(th, "u_intel", "u_classify",
               UpdIntel(sessions[frame[th].session_id], frame[th].request))

\* lines 117-150
UpdateClassify(th) ==
    UpdateStep(th, "u_classify", "u_notes",
               UpdClassify(sessions[frame[th].session_id], frame[th].request.text))

\* lines 152-164: red flags, reply, the end of the with block and the return.
\* A build_final_output in flight on the session notes the new state, the
\* other call of a pair notes that this one is done, and a waiting call that
\* is not the pair of this one is no longer one of two
UpdateReturn(th) ==
    /\ pc[th] = "u_notes"
    /\ LET sid == frame[th].session_id
           new == UpdNotes(sessions[sid], frame[th].request)
       IN  /\ sessions' = [sessions EXCEPT ![sid] = new]
           /\ last' = [op |-> "update_session", thread |-> th, session_id |-> sid,
                       existed |-> frame[th].existed,
                       request |-> frame[th].request,
                       before |-> frame[th].before,
                       pair |-> frame[th].pair,
                       result |-> new]
           /\ frame' = [o \in Threads |->
                           IF o = th THEN Idle
                           ELSE IF frame[o].op = "build_final_output"
                                   /\ frame[o].session_id = sid
                                THEN [frame[o] EXCEPT !.seen = @ \cup {new}]
                                ELSE IF frame[o].op = "update_session"
                                        /\ frame[o].session_id = sid
                                        /\ frame[o].pair.paired
                                     THEN IF frame[th].pair.paired
                                          THEN [frame[o] EXCEPT !.pair.done = TRUE]
                                          ELSE [frame[o] EXCEPT !.pair = NoPair]
                                     ELSE frame[o]]
    /\ lock' = "free"
    /\ pc' = [pc EXCEPT ![th] = "idle"]
    /\ UNCHANGED <<now, calls>>

\* no report of an earlier build_final_output to compare with
NoReport == [known |-> FALSE]

\* build_final_output is called; line 169.  prior is the report of the call
\* completed just before, when that was a build_final_output for the same
\* session that no update overlapped
BuildCall(th, session_id) ==
    /\ FreeWorker(th)
    /\ GetOrCreate(th, session_id)
    /\ pc' = [pc EXCEPT ![th] = "b_notes"]
    /\ frame' = [frame EXCEPT ![th] =
                    [op |-> "build_final_output", session_id |-> session_id,
                     ids_before |-> DOMAIN sessions,
                     ids_after |-> DOMAIN sessions',
                     prior |-> IF /\ last.op = "build_final_output"
                                  /\ last.session_id = session_id
                                  /\ ~last.overlapped
                               THEN [known |-> TRUE, report |-> last.result]
                               ELSE NoReport,
                     overlapped |-> FALSE,
                     seen |-> {sessions'[session_id]},
                     duration |-> 0, agent_notes |-> << >>, is_scam |-> FALSE]]
    /\ calls' = calls + 1
    /\ UNCHANGED <<lock, last>>

\* a build that counts itself as a message of the session
BuildNotesCounting(th) ==
    /\ pc[th] = "b_notes"
    /\ \E time \in Clock :
           /\ now' = time
           /\ frame' = [frame EXCEPT
                           ![th].duration = time - sessions[frame[th].session_id].startTime,
                           ![th].agent_notes = AgentNotes(sessions[frame[th].session_id])]
    /\ sessions' = [sessions EXCEPT ![frame[th].session_id].totalMessagesExchanged = @ + 1]
    /\ pc' = [pc EXCEPT ![th] = "b_is_scam"]
    /\ UNCHANGED <<lock, last, calls>>

\* lines 171-181, without the lock
BuildNotes(th) ==
    /\ pc[th] = "b_notes"
    /\ \E time \in Clock :
           /\ now' = time
           /\ frame' = [frame EXCEPT
                           ![th].duration = time - sessions[frame[th].session_id].startTime,
                           ![th].agent_notes = AgentNotes(sessions[frame[th].session_id])]
    /\ pc' = [pc EXCEPT ![th] = "b_is_scam"]
    /\ UNCHANGED <<sessions, lock, last, calls>>

\* line 183, without the lock
BuildIsScam(th) ==
    /\ pc[th] = "b_is_scam"
    /\ frame' = [frame EXCEPT ![th].is_scam = sessions[frame[th].session_id].scamDetected]
    /\ pc' = [pc EXCEPT ![th] = "b_return"]
    /\ UNCHANGED <<sessions, lock, now, last, calls>>

\* lines 185-201, without the lock
BuildReturn(th) ==
    /\ pc[th] = "b_return"
    /\ last' = [op |-> "build_final_output", thread |-> th,
                session_id |-> frame[th].session_id,
                ids_before |-> frame[th].ids_before,
                ids_after |-> frame[th].ids_after,
                prior |-> frame[th].prior,
                overlapped |-> frame[th].overlapped,
                read |-> sessions[frame[th].session_id],
                seen |-> frame[th].seen,
                duration |-> frame[th].duration,
                result |-> Report(frame[th].session_id,
                                  sessions[frame[th].session_id],
                                  frame[th].is_scam, frame[th].duration,
                                  frame[th].agent_notes)]
    /\ frame' = [frame EXCEPT ![th] = Idle]
    /\ pc' = [pc EXCEPT ![th] = "idle"]
    /\ UNCHANGED <<sessions, lock, now, calls>>

\* a get_session that creates what it does not find
GetSessionCreating(th, session_id) ==
    /\ FreeWorker(th)
    /\ LockFree(th)
    /\ sessions' = get_or_create_session(sessions, session_id, now)
    /\ last' = [op |-> "get_session", thread |-> th, session_id |-> session_id,
                ids_before |-> DOMAIN sessions,
                ids_after |-> DOMAIN sessions',
                found |-> session_id \in DOMAIN sessions,
                result |-> sessions'[session_id]]
    /\ calls' = calls + 1
    /\ UNCHANGED <<lock, now, pc, frame>>

\* get_session: _sessions.get(session_id) under the lock
GetSession(th, session_id) ==
    /\ FreeWorker(th)
    /\ LockFree(th)
    /\ UNCHANGED sessions
    /\ last' = [op |-> "get_session", thread |-> th, session_id |-> session_id,
                ids_before |-> DOMAIN sessions,
                ids_after |-> DOMAIN sessions',
                found |-> session_id \in DOMAIN sessions,
                result |-> IF session_id \in DOMAIN sessions
                           THEN sessions[session_id] ELSE "None"]
    /\ calls' = calls + 1
    /\ UNCHANGED <<lock, now, pc, frame>>

\* a mark_callback_sent that creates what it does not find
MarkCallbackSentCreating(th, session_id) ==
    /\ FreeWorker(th)
    /\ LockFree(th)
    /\ sessions' = [get_or_create_session(sessions, session_id, now)
                        EXCEPT ![session_id].callbackSent = TRUE]
    /\ last' = [op |-> "mark_callback_sent", thread |-> th, session_id |-> session_id,
                ids_before |-> DOMAIN sessions,
                ids_after |-> DOMAIN sessions',
                sent |-> session_id \in DOMAIN sessions'
                         /\ sessions'[session_id].callbackSent]
    /\ frame' = [o \in Threads |->
                    IF Waiting(o, session_id) THEN [frame[o] EXCEPT !.pair = NoPair]
                    ELSE frame[o]]
    /\ calls' = calls + 1
    /\ UNCHANGED <<lock, now, pc>>

\* mark_callback_sent under the lock
MarkCallbackSent(th, session_id) ==
    /\ FreeWorker(th)
    /\ LockFree(th)
    /\ sessions' = IF session_id \in DOMAIN sessions
                   THEN [sessions EXCEPT ![session_id].callbackSent = TRUE]
                   ELSE sessions
    /\ last' = [op |-> "mark_callback_sent", thread |-> th, session_id |-> session_id,
                ids_before |-> DOMAIN sessions,
                ids_after |-> DOMAIN sessions',
                sent |-> session_id \in DOMAIN sessions'
                         /\ sessions'[session_id].callbackSent]
    /\ frame' = [o \in Threads |->
                    IF Waiting(o, session_id) THEN [frame[o] EXCEPT !.pair = NoPair]
                    ELSE frame[o]]
    /\ calls' = calls + 1
    /\ UNCHANGED <<lock, now, pc>>

Next ==
    \E th \in Threads :
        \/ \E session_id \in SessionIds, r \in Requests : UpdateCall(th, session_id, r)
        \/ UpdateLock(th)
        \/ UpdateIntel(th)
        \/ UpdateClassify(th)
        \/ UpdateReturn(th)
        \/ \E session_id \in SessionIds : BuildCall(th, session_id)
        \/ BuildNotes(th)
        \/ BuildIsScam(th)
        \/ BuildReturn(th)
        \/ \E session_id \in SessionIds : GetSession(th, session_id)
        \/ \E session_id \in SessionIds : MarkCallbackSent(th, session_id)

Spec == Init /\ [][Next]_vars

(***************************************************************************)
(* The functions of extraction.py called on their own                      *)
(***************************************************************************)
\* intelligence records, some without some of the keys
IntelSamples ==
    {EmptyIntel,
     [phoneNumbers |-> {"9876543210"}],
     [phoneNumbers |-> {"9876543210", "+91-9876543210"}, upiIds |-> {"fraud@ybl"}],
     [upiIds |-> {"merchant@paytm"}, caseIds |-> {"REF-78901"}],
     [key \in Categories |->
         IF key = "upiIds" THEN {"fraud@ybl", "merchant@paytm"}
         ELSE IF key = "phishingLinks" THEN {"http://x.in"} ELSE {}]}

\* message texts with UPI ids, email addresses, phone numbers and accounts
SampleTexts ==
    {"",
     "send to merchant@paytm",
     "mail john.doe@gmail.com",
     "Call me at 9876543210",
     "call 01234567890",
     "acct 123456789012 phone +91-9876543210",
     "pay user@okaxis.com or ab+cd@ybl.in",
     "x 987654321 +91 98765 43210",
     "id 6123456789012 tel 9123456780"}

\* the arguments are chosen; frame holds them and last what is returned
PureInit ==
    /\ sessions = << >>
    /\ lock = "free"
    /\ now = 0
    /\ pc = [th \in Threads |-> "idle"]
    /\ last = [op |-> "none"]
    /\ calls = 0
    /\ frame \in {[op |-> "merge_intelligence", a |-> a, b |-> b, c |-> c] :
                     a \in IntelSamples, b \in IntelSamples, c \in IntelSamples}
                 \cup {[op |-> "extract_all_intelligence", text |-> text] :
                          text \in SampleTexts}

\* merge_intelligence on the chosen records, alone, in both orders, nested
\* both ways, and with an empty record
MergeCall ==
    /\ frame.op = "merge_intelligence"
    /\ last.op = "none"
    /\ last' = [op |-> "merge_intelligence",
                ab |-> merge_intelligence(frame.a, frame.b),
                ba |-> merge_intelligence(frame.b, frame.a),
                ab_c |-> merge_intelligence(merge_intelligence(frame.a, frame.b), frame.c),
                a_bc |-> merge_intelligence(frame.a, merge_intelligence(frame.b, frame.c)),
                aa |-> merge_intelligence(frame.a, frame.a),
                a_empty |-> merge_intelligence(frame.a, << >>),
                empty_a |-> merge_intelligence(<< >>, frame.a)]
    /\ calls' = calls + 1
    /\ UNCHANGED <<sessions, lock, now, pc, frame>>

\* the extractors on the chosen text
ExtractCall ==
    /\ frame.op = "extract_all_intelligence"
    /\ last.op = "none"
    /\ last' = [op |-> "extract_all_intelligence",
                phones |-> extract_phone_numbers(frame.text),
                upi_ids |-> extract_upi_ids(frame.text),
                emails |-> extract_email_addresses(frame.text),
                accounts |-> extract_bank_accounts(frame.text),
                result |-> extract_all_intelligence(frame.text)]
    /\ calls' = calls + 1
    /\ UNCHANGED <<sessions, lock, now, pc, frame>>

PureNext == MergeCall \/ ExtractCall

PureSpec == PureInit /\ [][PureNext]_vars

(***************************************************************************)
(* Properties                                                              *)
(***************************************************************************)
\* the call completed last is an update_session
Updated == last.op = "update_session"

\* the values of category key that a call added to the session
Added(key) == last.result.intelligence[key] \ last.before.intelligence[key]

\* C1: in every step of every call (update_session, build_final_output,
\* get_session, mark_callback_sent) a session that exists stays, and each of
\* its six intelligence categories is a superset of what it was: no value is
\* removed and no cardinality decreases.
C1_IntelligenceGrows ==
    [][\A sid \in DOMAIN sessions :
           /\ sid \in DOMAIN sessions'
           /\ \A key \in Categories :
                  /\ sessions[sid].intelligence[key] \subseteq sessions'[sid].intelligence[key]
                  /\ Cardinality(sessions[sid].intelligence[key])
                         <= Cardinality(sessions'[sid].intelligence[key])]_vars

\* C1 witness: an update of a session that already held values has added more
C1_Witness ==
    /\ Updated
    /\ \E key \in Categories : last.before.intelligence[key] # {}
    /\ \E key \in Categories : Added(key) # {}

\* the questions in a reply
Questions(reply) == IF Contains("?", reply) THEN Count(reply, "?") ELSE 0

\* C2: every update_session returns the session its whole body makes of the
\* session it found under the lock, and of two concurrent calls for one
\* session id the second to return returns one of the two serial orders of
\* both bodies on the session as it was when both had been called: its
\* intelligence holds what was there and what both extract from their texts
\* (a history counts in the call that runs first, as in a serial run), and
\* questionsAsked is the sum of the '?' counts of both replies.
C2_Serialized ==
    Updated =>
        /\ last.result = UpdateBody(last.before, last.request)
        /\ (last.pair.paired /\ last.pair.done) =>
               LET base == last.pair.base
                   own == last.request
                   peer == last.pair.peer
                   both == merge_intelligence(Facts(own.text).intel, Facts(peer.text).intel)
               IN  /\ last.result \in {UpdateBody(UpdateBody(base, peer), own),
                                       UpdateBody(UpdateBody(base, own), peer)}
                   /\ \A key \in Categories :
                          base.intelligence[key] \cup both[key]
                              \subseteq last.result.intelligence[key]
                   /\ last.result.questionsAsked
                          = base.questionsAsked + Questions(own.reply) + Questions(peer.reply)

\* C2 witness: two concurrent calls with different requests on a session that
\* did not exist before have both returned
C2_Witness ==
    /\ Updated
    /\ last.pair.paired
    /\ last.pair.done
    /\ last.pair.base.allScammerTexts = << >>
    /\ last.pair.peer # last.request
    /\ Len(last.result.allScammerTexts) = 2

\* C3: in every step of every call, a session whose scamDetected is true
\* keeps scamDetected true.
C3_ScamDetectedLatch ==
    [][\A sid \in DOMAIN sessions :
           sessions[sid].scamDetected =>
               (sid \in DOMAIN sessions' /\ sessions'[sid].scamDetected)]_vars

\* C3 witness: an update with no scam keyword in its text on a session
\* detected earlier
C3_Witness ==
    /\ Updated
    /\ last.before.scamDetected
    /\ Facts(last.request.text).signals = 0
    /\ last.result.scamDetected

\* C4: a build_final_output returns the report of one state of the session
\* in which every update is applied entirely or not at all: the session as
\* the call found it, or as an update left it while the call ran.
C4_AtomicReads ==
    last.op = "build_final_output" =>
        last.result \in {ReportOf(last.session_id, s, last.duration) : s \in last.seen}

\* C5: historyProcessed is never reset, it is set by the first update that
\* is given a history, and an update of a session whose history is processed
\* takes intelligence and red flags from its text alone.
C5_HistoryOnce ==
    Updated =>
        /\ last.result.historyProcessed
               = (last.before.historyProcessed \/ last.request.conversation_history # << >>)
        /\ last.before.historyProcessed =>
               /\ last.result.intelligence
                      = merge_intelligence(last.before.intelligence,
                                           Facts(last.request.text).intel)
               /\ last.result.redFlagsFound
                      = AppendNew(last.before.redFlagsFound, Facts(last.request.text).flags)

\* C5 witness: a later update was given a history whose UPI id is not in the
\* session
C5_Witness ==
    /\ Updated
    /\ last.before.historyProcessed
    /\ ~(extract_from_conversation_history(last.request.conversation_history)["upiIds"]
             \subseteq last.result.intelligence["upiIds"])

\* C6 as stated: after every update_session a session whose scamType is not
\* unknown has scamDetected true.
C6_TypeImpliesDetected ==
    Updated => (last.result.scamType # "unknown" => last.result.scamDetected)

\* C6: after every update_session scamDetected is true exactly when it was
\* true before or the current text holds one of the scam keywords; a session
\* whose confidenceLevel is above 0.0 has scamDetected true.
C6_DetectedByKeywords ==
    Updated =>
        /\ last.result.scamDetected
               = (last.before.scamDetected
                  \/ Facts(last.request.text).signals > 0)
        /\ last.result.confidenceLevel > 0 => last.result.scamDetected

\* C6 witness: a session that is given a type and is not detected
C6_Witness ==
    /\ Updated
    /\ last.result.scamType # "unknown"
    /\ ~last.result.scamDetected

\* C7: the confidenceLevel an update_session stores is at least the one it
\* found, and it is the confidence of the signals in all the scammer texts
\* of the session.
C7_ConfidenceMonotone ==
    Updated =>
        /\ last.result.confidenceLevel >= last.before.confidenceLevel
        /\ last.result.confidenceLevel = Confidence(SumSignals(last.result.allScammerTexts))

\* C7 witness: an update without scam keywords on a session with confidence
C7_Witness ==
    /\ Updated
    /\ last.before.confidenceLevel > 0
    /\ Facts(last.request.text).signals = 0
    /\ last.result.confidenceLevel = last.before.confidenceLevel

\* C8 as stated: an update_session that does not raise confidenceLevel
\* leaves scamType as it was.
C8_TypeKeptWithoutRise ==
    Updated =>
        (last.result.confidenceLevel <= last.before.confidenceLevel
             => last.result.scamType = last.before.scamType)

\* C8: every update_session appends its text and stores the type that the
\* classification of all the scammer texts of the session gives, whether or
\* not confidenceLevel rises.
C8_TypeRecomputed ==
    Updated =>
        /\ last.result.allScammerTexts = Append(last.before.allScammerTexts, last.request.text)
        /\ last.result.scamType = ScamTypeOf(last.result.allScammerTexts)

\* C8 witness: a known type is replaced by another without a rise of
\* confidenceLevel
C8_Witness ==
    /\ Updated
    /\ last.before.scamType # "unknown"
    /\ last.result.scamType # last.before.scamType
    /\ last.result.confidenceLevel <= last.before.confidenceLevel

\* C9 as stated: after every update_session a session whose scamType is
\* unknown has confidenceLevel 0.0.
C9_UnknownImpliesZero ==
    Updated => (last.result.scamType = "unknown" => last.result.confidenceLevel = 0)

\* C9: after every update_session confidenceLevel is 0.0 exactly when none
\* of the scammer texts of the session holds a scam keyword, whatever the
\* scamType.
C9_ZeroWithoutKeywords ==
    Updated =>
        (last.result.confidenceLevel = 0
            <=> \A i \in 1..Len(last.result.allScammerTexts) :
                    Facts(last.result.allScammerTexts[i]).signals = 0)

\* C9 witness: a session of unknown type with a confidenceLevel above 0.0
C9_Witness ==
    /\ Updated
    /\ last.result.scamType = "unknown"
    /\ last.result.confidenceLevel > 0

\* C10: after every update_session totalMessagesExchanged is the length of
\* the history of that call plus two.
C10_MessageCount ==
    Updated =>
        last.result.totalMessagesExchanged = Len(last.request.conversation_history) + 2

\* C10 witness: an update with a shorter history than the one before it, on
\* a session whose history is processed
C10_Witness ==
    /\ Updated
    /\ last.before.historyProcessed
    /\ last.result.totalMessagesExchanged < last.before.totalMessagesExchanged

\* C11: every update_session adds to questionsAsked the number of '?' in
\* the reply passed to it, so the counter never decreases and is the total
\* of '?' over the replies of the session.
C11_QuestionsCounted ==
    Updated =>
        /\ last.result.questionsAsked
               = last.before.questionsAsked + Count(last.request.reply, "?")
        /\ last.result.questionsAsked >= last.before.questionsAsked

\* C11 witness: a reply with two '?' on a session that had asked before
C11_Witness ==
    /\ Updated
    /\ last.before.questionsAsked > 0
    /\ Count(last.request.reply, "?") = 2
    /\ last.result.questionsAsked = last.before.questionsAsked + 2

\* the entries of a list
Entries(list) == {list[i] : i \in 1..Len(list)}

\* list a is the start of list b
IsPrefix(a, b) == Len(a) <= Len(b) /\ SubSeq(b, 1, Len(a)) = a

\* C12: in every state, also inside an update, the redFlagsFound of every
\* session has no entry twice and only entries of RED_FLAGS, and the list an
\* update_session found is a prefix of the list it leaves.
C12_RedFlagsAppendOnly ==
    /\ \A sid \in DOMAIN sessions :
           LET flags == sessions[sid].redFlagsFound
           IN  /\ Cardinality(Entries(flags)) = Len(flags)
               /\ Entries(flags) \subseteq Entries(RED_FLAGS)
    /\ Updated => IsPrefix(last.before.redFlagsFound, last.result.redFlagsFound)

\* C12 witness: an update whose text holds a flag found before and a new one
C12_Witness ==
    /\ Updated
    /\ Entries(Facts(last.request.text).flags) \cap Entries(last.before.redFlagsFound) # {}
    /\ Len(last.result.redFlagsFound) > Len(last.before.redFlagsFound)
    /\ Len(last.before.redFlagsFound) > 0

\* the call completed last is a build_final_output
Built == last.op = "build_final_output"

\* where a thread is inside build_final_output
BuildPcs == {"b_notes", "b_is_scam", "b_return"}

\* a step of build_final_output by some thread
BuildStep == \E th \in Threads : pc'[th] # pc[th] /\ (pc[th] \in BuildPcs \/ pc'[th] \in BuildPcs)

\* C13: no step of build_final_output changes a field of a session that
\* exists, and a build_final_output that follows another for the same
\* session, with no update overlapping or between them, returns a report
\* equal to the first in every field except engagementDurationSeconds, which
\* is not lower than in the first.
C13_BuildIsProjection ==
    /\ [](Built /\ last.prior.known /\ ~last.overlapped =>
              /\ [last.result EXCEPT !.engagementDurationSeconds = 0]
                     = [last.prior.report EXCEPT !.engagementDurationSeconds = 0]
              /\ last.result.engagementDurationSeconds
                     >= last.prior.report.engagementDurationSeconds)
    /\ [][BuildStep =>
              \A sid \in DOMAIN sessions :
                  sid \in DOMAIN sessions' /\ sessions'[sid] = sessions[sid]]_vars

\* C13 witness: the second of two reports shows a longer engagement
C13_Witness ==
    /\ Built
    /\ last.prior.known
    /\ ~last.overlapped
    /\ last.result.engagementDurationSeconds > last.prior.report.engagementDurationSeconds

\* the call completed last was for an id that had no session
UnknownId == last.session_id \notin last.ids_before

\* C14 as stated: a get_session or build_final_output for an id that has no
\* session leaves the set of sessions as it was.
C14_ReadsDoNotCreate ==
    (last.op \in {"get_session", "build_final_output"} /\ UnknownId) =>
        last.ids_after = last.ids_before

\* C14: a get_session for an id that has no session returns None and leaves
\* the set of sessions as it was; a build_final_output for such an id adds a
\* new session under the id and returns the report of that new session:
\* not detected, type none, confidence 0.0, no messages, no intelligence.
C14_ReadsOnUnknownId ==
    /\ (last.op = "get_session" /\ UnknownId) =>
           /\ last.ids_after = last.ids_before
           /\ ~last.found
           /\ last.result = "None"
    /\ (Built /\ UnknownId) =>
           /\ last.ids_after = last.ids_before \cup {last.session_id}
           /\ ~last.overlapped =>
                  last.result = ReportOf(last.session_id,
                                         NewSession(last.read.startTime), last.duration)

\* C14 witness: a build_final_output for an id that had no session has
\* returned a report
C14_Witness ==
    /\ Built
    /\ UnknownId
    /\ last.session_id \in last.ids_after
    /\ ~last.result.scamDetected

\* the call completed last is a mark_callback_sent
Marked == last.op = "mark_callback_sent"

\* C15 as stated: after update_session or mark_callback_sent a session is
\* stored under the id, and after mark_callback_sent its callbackSent is
\* true.
C15_MutationsCreate ==
    /\ Updated => last.session_id \in DOMAIN sessions
    /\ Marked => (last.session_id \in last.ids_after /\ last.sent)

\* C15: after update_session a session is stored under the id, whether or
\* not one was there; mark_callback_sent for an id that has no session
\* stores nothing and sets nothing, and for an id that has one it sets
\* callbackSent and leaves the set of sessions as it was.
C15_MutationsOnUnknownId ==
    /\ Updated => last.session_id \in DOMAIN sessions
    /\ Marked =>
           /\ last.ids_after = last.ids_before
           /\ last.sent = (last.session_id \in last.ids_before)

\* C15 witness: a mark_callback_sent for an id that has no session, with
\* another session in the store
C15_Witness ==
    /\ Marked
    /\ UnknownId
    /\ last.ids_before # {}
    /\ ~last.sent

\* C16: a report that says scamDetected false has scamType "none" and
\* confidenceLevel 0.0; one that says true has the scamType of the session
\* and the larger of its confidenceLevel and 0.75, so never less than 0.75;
\* and the report of a build_final_output that no update overlaps says what
\* the session says.
C16_VerdictFields ==
    Built =>
        /\ ~last.result.scamDetected =>
               (last.result.scamType = "none" /\ last.result.confidenceLevel = 0)
        /\ last.result.scamDetected =>
               /\ last.result.scamType = last.read.scamType
               /\ last.result.confidenceLevel = Max2(last.read.confidenceLevel, 75)
               /\ last.result.confidenceLevel >= 75
        /\ ~last.overlapped => last.result.scamDetected = last.read.scamDetected

\* C16 witness: a detected session with a confidence below 0.75 is reported
\* with 0.75
C16_Witness ==
    /\ Built
    /\ last.result.scamDetected
    /\ last.read.confidenceLevel < 75
    /\ last.result.confidenceLevel = 75

\* the values of a key of a record, none when the key is missing
Values(x, key) == Get(x, key, {})

\* two records hold the same set under every key
SameSets(x, y) == \A key \in (DOMAIN x) \cup (DOMAIN y) : Values(x, key) = Values(y, key)

\* the call completed last is a merge_intelligence
Merged == last.op = "merge_intelligence"

\* C17: merge_intelligence is the union per key, a missing key counting as
\* the empty set: merge(a, b) and merge(b, a) hold the same sets, so do
\* merge(merge(a, b), c) and merge(a, merge(b, c)), and merge(a, a),
\* merge(a, {}) and merge({}, a) are a.
C17_MergeLaws ==
    Merged =>
        /\ \A key \in (DOMAIN frame.a) \cup (DOMAIN frame.b) :
               /\ key \in DOMAIN last.ab
               /\ last.ab[key] = Values(frame.a, key) \cup Values(frame.b, key)
        /\ SameSets(last.ab, last.ba)
        /\ SameSets(last.ab_c, last.a_bc)
        /\ last.aa = frame.a
        /\ last.a_empty = frame.a
        /\ last.empty_a = frame.a

\* C17 witness: three different records, the first without a key that the
\* second has values for
C17_Witness ==
    /\ Merged
    /\ frame.a # frame.b /\ frame.b # frame.c /\ frame.a # frame.c
    /\ \E key \in DOMAIN frame.b : key \notin DOMAIN frame.a /\ last.ab[key] # {}
    /\ \E key \in DOMAIN frame.a : last.ab[key] # frame.a[key]

\* the call completed last is an extract_all_intelligence
Extracted == last.op = "extract_all_intelligence"

\* C18: for every text, no UPI id of the text is among its email
\* addresses, and the record of extract_all_intelligence holds these two
\* results, so its upiIds and emailAddresses are disjoint.
C18_EmailUpiDisjoint ==
    Extracted =>
        /\ last.upi_ids \cap last.emails = {}
        /\ last.result["upiIds"] = last.upi_ids
        /\ last.result["emailAddresses"] = last.emails
        /\ last.result["upiIds"] \cap last.result["emailAddresses"] = {}

\* C18 witness: a text with an email address and with a UPI id whose domain
\* ends like an email domain
C18_Witness ==
    /\ Extracted
    /\ last.emails # {}
    /\ \E u \in last.upi_ids : HasTld(Lower(After(u, "@")))

\* C19: for every text, no bank account returned is, or is part of, the
\* digits of a phone number returned for the text, and none is a run of ten
\* digits that starts with 6, 7, 8 or 9.
C19_BankExcludesPhones ==
    Extracted =>
        /\ \A m \in last.accounts :
               /\ \A p \in last.phones : ~Contains(m, Keep(p, DigitSet))
               /\ ~(Len(m) = 10 /\ Ch(m, 1) \in {"6", "7", "8", "9"})
        /\ last.result["bankAccounts"] = last.accounts

\* C19 witness: a text with a phone number and a digit run of account
\* length that is not returned as an account
C19_Witness ==
    /\ Extracted
    /\ last.phones # {}
    /\ last.accounts = {}
    /\ \E i \in 1..Len(frame.text) : BankEnd(frame.text, i) > 0

\* the entries of a history that have both a sender and a text
WellFormed(history) ==
    SelectSeq(history, LAMBDA msg : "sender" \in DOMAIN msg /\ "text" \in DOMAIN msg)

\* an entry of the history of the call completed last lacks the field
Lacks(field) ==
    \E i \in 1..Len(last.request.conversation_history) :
        field \notin DOMAIN last.request.conversation_history[i]

\* C20: an update_session that processes a history returns, and leaves the
\* intelligence and redFlagsFound that the same call leaves when the
\* entries without sender or without text are taken out of the history: the
\* malformed entries add nothing and the others still count.
C20_MalformedEntriesSkipped ==
    (Updated /\ ~last.before.historyProcessed
        /\ last.request.conversation_history # << >>) =>
        LET clean == UpdateBody(last.before,
                                [last.request EXCEPT !.conversation_history = WellFormed(@)])
        IN  /\ last.result.historyProcessed
            /\ last.result.intelligence = clean.intelligence
            /\ last.result.redFlagsFound = clean.redFlagsFound

\* C20 witness: a history with an entry without sender and one without
\* text was processed; the phone number of its scammer entry is in the
\* session and the case id of the entry without sender is not
C20_Witness ==
    /\ Updated
    /\ ~last.before.historyProcessed
    /\ Lacks("sender")
    /\ Lacks("text")
    /\ "+91-9876543210" \in last.result.intelligence["phoneNumbers"]
    /\ "REF-78901" \notin last.result.intelligence["caseIds"]

\* the types of SCAM_PATTERNS in the order of the table
TypeOrder == [i \in 1..Len(SCAM_PATTERNS) |-> SCAM_PATTERNS[i][1]]

\* type is the first entry of the table with the highest score, or unknown
\* when every score is zero
IsArgmax(type, scores) ==
    IF \A i \in DOMAIN scores : scores[i] = 0
    THEN type = "unknown"
    ELSE \E i \in DOMAIN scores :
             /\ type = TypeOrder[i]
             /\ \A j \in DOMAIN scores : scores[j] <= scores[i]
             /\ \A j \in DOMAIN scores : j < i => scores[j] < scores[i]

\* a thread is between the append of the text and the classification of
\* the session stored under id
Classifying(id) == \E th \in Threads : pc[th] = "u_classify" /\ frame[th].session_id = id

\* C21: the scamType an update_session returns, and the scamType of every
\* stored session that is not between the append of a text and its
\* classification, is the type of SCAM_PATTERNS with the most keywords in the
\* lowercased join of allScammerTexts, the earliest in table order among
\* equals, and unknown when no keyword occurs; sessions with the same
\* allScammerTexts have the same scamType.
C21_ClassificationArgmax ==
    /\ TypeOrder = <<"bank_fraud", "upi_fraud", "phishing", "tech_support",
                     "insurance_fraud", "delivery_fraud">>
    /\ Updated => IsArgmax(last.result.scamType, Scores(last.result.allScammerTexts))
    /\ \A id \in DOMAIN sessions :
           ~Classifying(id) =>
               IsArgmax(sessions[id].scamType, Scores(sessions[id].allScammerTexts))
    /\ \A a, b \in DOMAIN sessions :
           (~Classifying(a) /\ ~Classifying(b)
            /\ sessions[a].allScammerTexts = sessions[b].allScammerTexts)
               => sessions[a].scamType = sessions[b].scamType

\* C21 witness: two types share the highest score, which is not zero, and
\* the update returns the earlier of them
C21_Witness ==
    /\ Updated
    /\ LET scores == Scores(last.result.allScammerTexts)
       IN  \E i, j \in DOMAIN scores :
               /\ i < j
               /\ scores[i] > 0
               /\ scores[i] = scores[j]
               /\ \A k \in DOMAIN scores : scores[k] <= scores[i]
               /\ last.result.scamType = TypeOrder[i]

\* where a thread is inside update_session
UpdatePcs == {"u_lock", "u_intel", "u_classify", "u_notes"}

\* the step is one of an update_session call for session id a: the call
\* itself, the taking of the lock, or a group of statements of the body
UpdateWrites(a) ==
    \E th \in Threads :
        /\ pc'[th] # pc[th]
        /\ \/ pc'[th] \in UpdatePcs /\ frame'[th].session_id = a
           \/ pc[th] \in UpdatePcs /\ frame[th].session_id = a

\* the step is a mark_callback_sent call for session id a
MarkWrites(a) ==
    /\ pc' = pc
    /\ calls' # calls
    /\ last'.op = "mark_callback_sent"
    /\ last'.session_id = a

\* the session is the one that was stored, not a new one in its place
SameSession(old, new) ==
    /\ new.startTime = old.startTime
    /\ IsPrefix(old.allScammerTexts, new.allScammerTexts)
    /\ old.historyProcessed => new.historyProcessed
    /\ old.callbackSent => new.callbackSent

HistorySignals(history) ==
    {i \in 1..Len(history) :
         /\ Get(history[i], "sender", "None") = "scammer"
         /\ Facts(MsgText(history[i])).signals > 0}

\* the request of the call with an empty history in place of its history
WithoutHistory(r) == [r EXCEPT !.conversation_history = << >>]

\* C23: after every update_session allScammerTexts is the list of the
\* current texts passed so far, scamDetected is true exactly when one of
\* them holds a scam keyword, and confidenceLevel is min(1.0, 0.15 x the
\* keyword matches counted text by text over that list); both are what the
\* same call with an empty history would have stored; and the history that
\* this call processed has its scammer messages' intelligence and red flags
\* in the session.
C23_DetectionFromCurrentTexts ==
    Updated =>
        LET texts == last.result.allScammerTexts
            plain == UpdateBody(last.before, WithoutHistory(last.request))
            history == last.request.conversation_history
        IN  /\ texts = Append(last.before.allScammerTexts, last.request.text)
            /\ last.result.scamDetected
                   <=> \E i \in 1..Len(texts) : Facts(texts[i]).signals > 0
            /\ last.result.confidenceLevel = Min2(100, 15 * SumSignals(texts))
            /\ last.result.scamDetected = plain.scamDetected
            /\ last.result.confidenceLevel = plain.confidenceLevel
            /\ ~last.before.historyProcessed =>
                   /\ \A key \in Categories :
                          extract_from_conversation_history(history)[key]
                              \subseteq last.result.intelligence[key]
                   /\ Entries(HistoryFlags(<< >>, history))
                          \subseteq Entries(last.result.redFlagsFound)

\* C23 witness: the history that the update processed holds a scammer
\* message with a scam keyword, no current text holds one, and the session
\* has a red flag and a UPI id of the history, is not detected and has
\* confidence 0.0
C23_Witness ==
    /\ Updated
    /\ ~last.before.historyProcessed
    /\ HistorySignals(last.request.conversation_history) # {}
    /\ \A i \in 1..Len(last.result.allScammerTexts) :
           Facts(last.result.allScammerTexts[i]).signals = 0
    /\ Entries(HistoryFlags(<< >>, last.request.conversation_history))
           \ Entries(Facts(last.request.text).flags) # {}
    /\ extract_from_conversation_history(last.request.conversation_history)["upiIds"]
           \ Facts(last.request.text).intel["upiIds"] # {}
    /\ ~last.result.scamDetected
    /\ last.result.confidenceLevel = 0

====
